---- MODULE Spec2Model ----
(***************************************************************************)
(* Typed storage facade of ts-typed-storage: createSyncTypedStorage over a *)
(* synchronous string key-value adapter, with the four built-in codecs.    *)
(*                                                                         *)
(* JavaScript strings are sequences of one-character strings, so that      *)
(* template-literal joins, startsWith, replace, String(), Number(),        *)
(* JSON.stringify and JSON.parse are computed character by character.      *)
(***************************************************************************)
EXTENDS Integers, Sequences, FiniteSets, TLC

VARIABLES params, store, last, fresh, removed,
          adapter, listeners, listenerMap, nextId, unregistered, faults

vars == <<params, store, last, fresh, removed,
          adapter, listeners, listenerMap, nextId, unregistered, faults>>

(***************************************************************************)
(* Bounds                                                                  *)
(***************************************************************************)
\* magnitude of the non-zero numbers written through number and JSON fields
MaxNum == 10
\* number of internal listener callbacks created by addListener in one run
MaxWrappers == 3

(***************************************************************************)
(* JavaScript values                                                       *)
(***************************************************************************)
Null == [t |-> "null"]
Undefined == [t |-> "undefined"]
\* values of different types carry differently named fields
StrV(s) == [t |-> "str", chars |-> s]
BoolV(b) == [t |-> "bool", bool |-> b]
\* an IEEE number: NaN, or a signed integer magnitude (neg /\ mag = 0 is -0)
NumV(neg, mag) == [t |-> "num", nan |-> FALSE, neg |-> neg, mag |-> mag]
NaN == [t |-> "num", nan |-> TRUE, neg |-> FALSE, mag |-> 0]
NegZero == NumV(TRUE, 0)
ArrV(elems) == [t |-> "arr", elems |-> elems]
\* an object is the sequence of its own properties, in insertion order
ObjV(members) == [t |-> "obj", members |-> members]
Member(name, val) == [name |-> name, val |-> val]

\* the outcome of a call: a returned value or a thrown error
Ok(v) == [t |-> "ok", v |-> v]
Throw(e) == [t |-> "throw", err |-> e]

(***************************************************************************)
(* String primitives                                                       *)
(***************************************************************************)
StartsWith(s, p) == Len(p) <= Len(s) /\ SubSeq(s, 1, Len(p)) = p

\* index of the first occurrence of p in s, 0 when there is none
IndexOf(s, p) ==
  LET hits == {i \in 1..(Len(s) + 1) :
                 i + Len(p) - 1 <= Len(s) /\ SubSeq(s, i, i + Len(p) - 1) = p}
  IN IF hits = {} THEN 0 ELSE CHOOSE i \in hits : \A j \in hits : i <= j

\* String.prototype.replace with a string pattern: the first occurrence only
Replace(s, p, r) ==
  LET i == IndexOf(s, p)
  IN IF i = 0 THEN s
     ELSE SubSeq(s, 1, i - 1) \o r \o SubSeq(s, i + Len(p), Len(s))

DigitChars == <<"0", "1", "2", "3", "4", "5", "6", "7", "8", "9">>

IsDigit(c) == \E d \in 1..Len(DigitChars) : DigitChars[d] = c

DigitVal(c) == (CHOOSE d \in 1..Len(DigitChars) : DigitChars[d] = c) - 1

RECURSIVE NatToDigits(_)
NatToDigits(n) ==
  IF n < 10 THEN <<DigitChars[n + 1]>>
  ELSE NatToDigits(n \div 10) \o <<DigitChars[(n % 10) + 1]>>

RECURSIVE DigitsToNat(_)
DigitsToNat(s) ==
  IF s = <<>> THEN 0
  ELSE 10 * DigitsToNat(SubSeq(s, 1, Len(s) - 1)) + DigitVal(s[Len(s)])

AllDigits(s) == s # <<>> /\ \A i \in 1..Len(s) : IsDigit(s[i])

\* String(v) of a number: "NaN", "0" for both zeros, else sign and digits
NumberToString(n) ==
  IF n.nan THEN <<"N", "a", "N">>
  ELSE IF n.mag = 0 THEN <<"0">>
  ELSE (IF n.neg THEN <<"-">> ELSE <<>>) \o NatToDigits(n.mag)

\* Number(raw) on the raw strings of this model (no whitespace, fraction,
\* exponent, radix prefix or "Infinity"): "" is 0, an optionally signed run
\* of digits is its value ("-0" is -0), anything else is NaN
StringToNumber(s) ==
  IF s = <<>> THEN NumV(FALSE, 0)
  ELSE IF AllDigits(s) THEN NumV(FALSE, DigitsToNat(s))
  ELSE IF s[1] \in {"-", "+"} /\ AllDigits(Tail(s))
    THEN NumV(s[1] = "-", DigitsToNat(Tail(s)))
  ELSE NaN

(***************************************************************************)
(* JSON.stringify and JSON.parse                                           *)
(***************************************************************************)
Quote(s) == <<"\"">> \o s \o <<"\"">>

RECURSIVE Stringify(_), StringifyElems(_), StringifyMembers(_)
Stringify(v) ==
  CASE v.t = "null" -> <<"n", "u", "l", "l">>
    [] v.t = "bool" -> IF v.bool THEN <<"t", "r", "u", "e">>
                       ELSE <<"f", "a", "l", "s", "e">>
    [] v.t = "num" -> IF v.nan THEN <<"n", "u", "l", "l">>
                      ELSE NumberToString(v)
    [] v.t = "str" -> Quote(v.chars)
    [] v.t = "arr" -> <<"[">> \o StringifyElems(v.elems) \o <<"]">>
    [] v.t = "obj" -> <<"{">> \o StringifyMembers(v.members) \o <<"}">>

StringifyElems(es) ==
  IF es = <<>> THEN <<>>
  ELSE Stringify(es[1])
       \o (IF Len(es) > 1 THEN <<",">> \o StringifyElems(Tail(es)) ELSE <<>>)

StringifyMembers(ms) ==
  IF ms = <<>> THEN <<>>
  ELSE Quote(ms[1].name) \o <<":">> \o Stringify(ms[1].val)
       \o (IF Len(ms) > 1 THEN <<",">> \o StringifyMembers(Tail(ms)) ELSE <<>>)

\* a parse step: failure, or the value read and the index after it
NoParse == [ok |-> FALSE]
Parsed(v, next) == [ok |-> TRUE, val |-> v, next |-> next]

LitAt(s, i, lit) ==
  i + Len(lit) - 1 <= Len(s) /\ SubSeq(s, i, i + Len(lit) - 1) = lit

\* the end of the run of digits that starts at i (i itself when there is none)
RECURSIVE DigitsEnd(_, _)
DigitsEnd(s, i) ==
  IF i <= Len(s) /\ IsDigit(s[i]) THEN DigitsEnd(s, i + 1) ELSE i

\* a JSON integer at i: optional minus, then "0" or a run with no leading zero
ParseNumber(s, i) ==
  LET neg == i <= Len(s) /\ s[i] = "-"
      b == IF neg THEN i + 1 ELSE i
      e == DigitsEnd(s, b)
  IN IF e = b \/ (s[b] = "0" /\ e > b + 1) THEN NoParse
     ELSE Parsed(NumV(neg, DigitsToNat(SubSeq(s, b, e - 1))), e)

\* a JSON string at i (no escapes: the alphabet has no backslash)
ParseString(s, i) ==
  IF ~(i <= Len(s) /\ s[i] = "\"") THEN NoParse
  ELSE LET closes == {j \in (i + 1)..Len(s) : s[j] = "\""}
       IN IF closes = {} THEN NoParse
          ELSE LET j == CHOOSE c \in closes : \A d \in closes : c <= d
               IN Parsed(StrV(SubSeq(s, i + 1, j - 1)), j + 1)

RECURSIVE ParseValue(_, _), ParseElems(_, _, _), ParseMembers(_, _, _)
ParseValue(s, i) ==
  IF i > Len(s) THEN NoParse
  ELSE IF LitAt(s, i, <<"n", "u", "l", "l">>) THEN Parsed(Null, i + 4)
  ELSE IF LitAt(s, i, <<"t", "r", "u", "e">>) THEN Parsed(BoolV(TRUE), i + 4)
  ELSE IF LitAt(s, i, <<"f", "a", "l", "s", "e">>)
    THEN Parsed(BoolV(FALSE), i + 5)
  ELSE IF s[i] = "\"" THEN ParseString(s, i)
  ELSE IF s[i] = "[" THEN
    IF LitAt(s, i, <<"[", "]">>) THEN Parsed(ArrV(<<>>), i + 2)
    ELSE ParseElems(s, i + 1, <<>>)
  ELSE IF s[i] = "{" THEN
    IF LitAt(s, i, <<"{", "}">>) THEN Parsed(ObjV(<<>>), i + 2)
    ELSE ParseMembers(s, i + 1, <<>>)
  ELSE ParseNumber(s, i)

\* the elements of an array from i on, acc being the ones already read
ParseElems(s, i, acc) ==
  LET e == ParseValue(s, i)
  IN IF ~e.ok \/ e.next > Len(s) THEN NoParse
     ELSE IF s[e.next] = "]" THEN Parsed(ArrV(Append(acc, e.val)), e.next + 1)
     ELSE IF s[e.next] = "," THEN ParseElems(s, e.next + 1, Append(acc, e.val))
     ELSE NoParse

\* the members of an object from i on; a repeated name keeps its first
\* position and takes the last value, as property assignment does
ParseMembers(s, i, acc) ==
  LET k == ParseString(s, i)
  IN IF ~k.ok \/ k.next > Len(s) \/ s[k.next] # ":" THEN NoParse
     ELSE LET e == ParseValue(s, k.next + 1)
              old == {p \in 1..Len(acc) : acc[p].name = k.val.chars}
              acc2 == IF old = {} THEN Append(acc, Member(k.val.chars, e.val))
                      ELSE [p \in 1..Len(acc) |->
                              IF p \in old THEN Member(k.val.chars, e.val)
                              ELSE acc[p]]
          IN IF ~e.ok \/ e.next > Len(s) THEN NoParse
             ELSE IF s[e.next] = "}" THEN Parsed(ObjV(acc2), e.next + 1)
             ELSE IF s[e.next] = "," THEN ParseMembers(s, e.next + 1, acc2)
             ELSE NoParse

\* JSON.parse(raw): the value, or a SyntaxError unless exactly one value is read
JsonParse(s) ==
  LET r == ParseValue(s, 1)
  IN IF r.ok /\ r.next = Len(s) + 1 THEN Ok(r.val) ELSE Throw("SyntaxError")

(***************************************************************************)
(* Codecs                                                                  *)
(***************************************************************************)
\* a raw string held by the adapter is StrV(chars); "no value" is Null
Encode(codec, v) ==
  CASE codec = "string" -> v.chars
    [] codec = "boolean" -> IF v.bool THEN <<"1">> ELSE <<"0">>
    [] codec = "number" -> NumberToString(v)
    [] codec = "json" -> Stringify(v)

\* a boolean decode that reads every raw string other than "1" as false
DecodeLenient(codec, raw) ==
  CASE codec = "string" -> Ok(IF raw = Null THEN Null ELSE raw)
    [] codec = "boolean" ->
         Ok(IF raw = Null THEN Null
            ELSE IF raw = StrV(<<"1">>) THEN BoolV(TRUE)
            ELSE BoolV(FALSE))
    [] codec = "number" ->
         Ok(IF raw = Null THEN Null ELSE StringToNumber(raw.chars))
    [] codec = "json" -> IF raw = Null THEN Ok(Null) ELSE JsonParse(raw.chars)

Decode(codec, raw) ==
  CASE codec = "string" -> Ok(IF raw = Null THEN Null ELSE raw)
    [] codec = "boolean" ->
         Ok(IF raw = StrV(<<"1">>) THEN BoolV(TRUE)
            ELSE IF raw = StrV(<<"0">>) THEN BoolV(FALSE)
            ELSE Null)
    [] codec = "number" ->
         Ok(IF raw = Null THEN Null ELSE StringToNumber(raw.chars))
    [] codec = "json" -> IF raw = Null THEN Ok(Null) ELSE JsonParse(raw.chars)

(***************************************************************************)
(* Schema                                                                  *)
(***************************************************************************)
\* field(codec, defaultValue): default is Undefined when none is given
field(name, codec, defaultValue) ==
  [name |-> name, codec |-> codec, default |-> defaultValue]

\* a member every object literal inherits from Object.prototype
ProtoKey == <<"v", "a", "l", "u", "e", "O", "f">>
Inherited == [t |-> "inherited"]

\* Object.keys(schema): the declared names, in declaration order
ObjectKeys(schema) == [i \in 1..Len(schema) |-> schema[i].name]

Declared(schema) == {schema[i].name : i \in 1..Len(schema)}

\* schema[key]: the declared field, an inherited member, or undefined
SchemaLookup(schema, key) ==
  IF key \in Declared(schema)
    THEN LET i == CHOOSE j \in 1..Len(schema) : schema[j].name = key
         IN [t |-> "field", codec |-> schema[i].codec,
             default |-> schema[i].default]
  ELSE IF key = ProtoKey THEN Inherited
  ELSE Undefined

(***************************************************************************)
(* Storage adapter: a Map from physical key to raw string                  *)
(***************************************************************************)
EmptyStore == [x \in {} |-> Null]

GetItem(st, pk) == IF pk \in DOMAIN st THEN StrV(st[pk]) ELSE Null

SetItem(st, pk, chars) ==
  [x \in (DOMAIN st) \cup {pk} |-> IF x = pk THEN chars ELSE st[x]]

DeleteItem(st, pk) == [x \in (DOMAIN st) \ {pk} |-> st[x]]

\* the adapter contract leaves the order of getAllKeys() open: a set
GetAllKeys(st) == DOMAIN st

\* one call received by the adapter
Call(fn, pk, value) == [fn |-> fn, key |-> pk, value |-> value]

(***************************************************************************)
(* createSyncTypedStorage                                                  *)
(***************************************************************************)
Truthy(namespace) == namespace # Undefined /\ namespace.chars # <<>>

makeKey(p, key) ==
  IF Truthy(p.namespace) THEN p.namespace.chars \o <<"-">> \o key ELSE key

\* every operation yields its outcome, the adapter calls it made in order,
\* and the store it leaves
Effect(out, calls, st) == [out |-> out, calls |-> calls, store |-> st]

getDefaulting(p, st, key) ==
  LET fld == SchemaLookup(p.schema, key)
      pk == makeKey(p, key)
      raw == GetItem(st, pk)
  IN IF fld = Undefined THEN Effect(Throw("UnknownKey"), <<>>, st)
     ELSE IF fld = Inherited
       THEN Effect(Throw("TypeError"), <<Call("getItem", pk, Null)>>, st)
     ELSE Effect(IF raw = Null /\ fld.default # Undefined THEN Ok(fld.default)
                 ELSE Decode(fld.codec, raw),
                 <<Call("getItem", pk, Null)>>, st)

\* a get that catches the decode failure and reads it as an absent value
getCatching(p, st, key) ==
  LET fld == SchemaLookup(p.schema, key)
      pk == makeKey(p, key)
      d == IF fld \in {Undefined, Inherited} THEN Ok(Null)
           ELSE Decode(fld.codec, GetItem(st, pk))
  IN IF fld = Undefined THEN Effect(Throw("UnknownKey"), <<>>, st)
     ELSE IF fld = Inherited
       THEN Effect(Throw("TypeError"), <<Call("getItem", pk, Null)>>, st)
     ELSE Effect(IF d.t = "throw" THEN Ok(Null) ELSE d,
                 <<Call("getItem", pk, Null)>>, st)

\* a get that reads the logical key itself
getUnprefixed(p, st, key) ==
  LET fld == SchemaLookup(p.schema, key)
  IN IF fld = Undefined THEN Effect(Throw("UnknownKey"), <<>>, st)
     ELSE IF fld = Inherited
       THEN Effect(Throw("TypeError"), <<Call("getItem", key, Null)>>, st)
     ELSE Effect(Decode(fld.codec, GetItem(st, key)),
                 <<Call("getItem", key, Null)>>, st)

\* a get that deletes the key it has read
getConsuming(p, st, key) ==
  LET fld == SchemaLookup(p.schema, key)
      pk == makeKey(p, key)
  IN IF fld = Undefined THEN Effect(Throw("UnknownKey"), <<>>, st)
     ELSE IF fld = Inherited
       THEN Effect(Throw("TypeError"), <<Call("getItem", pk, Null)>>, st)
     ELSE Effect(Decode(fld.codec, GetItem(st, pk)),
                 <<Call("getItem", pk, Null), Call("deleteItem", pk, Null)>>,
                 DeleteItem(st, pk))

get(p, st, key) ==
  LET fld == SchemaLookup(p.schema, key)
      pk == makeKey(p, key)
  IN IF fld = Undefined THEN Effect(Throw("UnknownKey"), <<>>, st)
     ELSE IF fld = Inherited
       \* getItem has run when field.codec.decode fails on the missing codec
       THEN Effect(Throw("TypeError"), <<Call("getItem", pk, Null)>>, st)
     ELSE Effect(Decode(fld.codec, GetItem(st, pk)),
                 <<Call("getItem", pk, Null)>>, st)

setUnprefixed(p, st, key, value) ==
  LET fld == SchemaLookup(p.schema, key)
  IN IF fld = Undefined THEN Effect(Throw("UnknownKey"), <<>>, st)
     ELSE IF fld = Inherited THEN Effect(Throw("TypeError"), <<>>, st)
     ELSE LET encoded == Encode(fld.codec, value)
          IN Effect(Ok(Undefined), <<Call("setItem", key, StrV(encoded))>>,
                    SetItem(st, key, encoded))

set(p, st, key, value) ==
  LET fld == SchemaLookup(p.schema, key)
      pk == makeKey(p, key)
  IN IF fld = Undefined THEN Effect(Throw("UnknownKey"), <<>>, st)
     \* field.codec.encode fails on the missing codec before setItem
     ELSE IF fld = Inherited THEN Effect(Throw("TypeError"), <<>>, st)
     ELSE LET encoded == Encode(fld.codec, value)
          IN Effect(Ok(Undefined), <<Call("setItem", pk, StrV(encoded))>>,
                    SetItem(st, pk, encoded))

removeNothing(p, st, key) == Effect(Ok(Undefined), <<>>, st)

remove(p, st, key) ==
  LET pk == makeKey(p, key)
  IN Effect(Ok(Undefined), <<Call("deleteItem", pk, Null)>>,
            DeleteItem(st, pk))

\* the variant of keys() that builds its prefix with ":" instead of "-"
keysColon(p, st) ==
  LET all == GetAllKeys(st)
      prefix == IF Truthy(p.namespace) THEN p.namespace.chars \o <<":">> ELSE <<>>
  IN Effect(Ok({Replace(k, prefix, <<>>) :
                  k \in {x \in all : IF prefix # <<>> THEN StartsWith(x, prefix)
                                     ELSE TRUE}}),
            <<Call("getAllKeys", <<>>, Null)>>, st)

\* keys() with the startsWith filter left out
keysUnfiltered(p, st) ==
  LET all == GetAllKeys(st)
      prefix == IF Truthy(p.namespace) THEN p.namespace.chars \o <<"-">> ELSE <<>>
  IN Effect(Ok({Replace(k, prefix, <<>>) : k \in all}),
            <<Call("getAllKeys", <<>>, Null)>>, st)

keys(p, st) ==
  LET all == GetAllKeys(st)
      prefix == IF Truthy(p.namespace) THEN p.namespace.chars \o <<"-">> ELSE <<>>
  IN Effect(Ok({Replace(k, prefix, <<>>) :
                  k \in {x \in all : IF prefix # <<>> THEN StartsWith(x, prefix)
                                     ELSE TRUE}}),
            <<Call("getAllKeys", <<>>, Null)>>, st)

\* remove(k) for the names ks, in order
RECURSIVE RemoveEach(_, _, _)
RemoveEach(p, st, ks) ==
  IF ks = <<>> THEN Effect(Ok(Undefined), <<>>, st)
  ELSE LET r == remove(p, st, ks[1])
           rest == RemoveEach(p, r.store, Tail(ks))
       IN Effect(Ok(Undefined), r.calls \o rest.calls, rest.store)

\* the store-driven clearing: deleteItem on every key the adapter lists
RECURSIVE DeleteEach(_, _)
DeleteEach(st, pks) ==
  IF pks = {} THEN Effect(Ok(Undefined), <<>>, st)
  ELSE LET pk == CHOOSE x \in pks : TRUE
           rest == DeleteEach(DeleteItem(st, pk), pks \ {pk})
       IN Effect(Ok(Undefined), <<Call("deleteItem", pk, Null)>> \o rest.calls,
                 rest.store)

clearAllStore(p, st) == DeleteEach(st, GetAllKeys(st))

clearAllButLast(p, st) ==
  RemoveEach(p, st, SubSeq(ObjectKeys(p.schema), 1, Len(p.schema) - 1))

\* a clearAll that removes the fields from the last declared to the first
clearAllBackwards(p, st) ==
  RemoveEach(p, st, [i \in 1..Len(p.schema) |->
                       ObjectKeys(p.schema)[Len(p.schema) + 1 - i]])

clearAll(p, st) == RemoveEach(p, st, ObjectKeys(p.schema))

(***************************************************************************)
(* The second createSyncTypedStorage of the repository, without listeners  *)
(***************************************************************************)
variantMakeKey(p, key) ==
  IF Truthy(p.namespace) THEN p.namespace.chars \o <<"-">> \o key ELSE key

variantSet(p, st, key, value) ==
  LET fld == SchemaLookup(p.schema, key)
      pk == variantMakeKey(p, key)
  IN IF fld = Undefined THEN Effect(Throw("UnknownKey"), <<>>, st)
     ELSE IF fld = Inherited THEN Effect(Throw("TypeError"), <<>>, st)
     ELSE LET encoded == Encode(fld.codec, value)
          IN Effect(Ok(Undefined), <<Call("setItem", pk, StrV(encoded))>>,
                    SetItem(st, pk, encoded))

variantRemove(p, st, key) ==
  LET pk == variantMakeKey(p, key)
  IN Effect(Ok(Undefined), <<Call("deleteItem", pk, Null)>>,
            DeleteItem(st, pk))

variantKeys(p, st) ==
  LET all == GetAllKeys(st)
      prefix == IF Truthy(p.namespace) THEN p.namespace.chars \o <<":">> ELSE <<>>
  IN Effect(Ok({Replace(k, prefix, <<>>) :
                  k \in {x \in all : IF prefix # <<>> THEN StartsWith(x, prefix)
                                     ELSE TRUE}}),
            <<Call("getAllKeys", <<>>, Null)>>, st)

(***************************************************************************)
(* Listeners                                                               *)
(***************************************************************************)
\* a Map: a function on the keys it holds
EmptyMap == [x \in {} |-> Null]
MapHas(m, k) == k \in DOMAIN m
MapSet(m, k, v) == [x \in (DOMAIN m) \cup {k} |-> IF x = k THEN v ELSE m[x]]
MapDelete(m, k) == [x \in (DOMAIN m) \ {k} |-> m[x]]

\* the capabilities of the adapter passed to createSyncTypedStorage
Capabilities(add, rem) == [addListener |-> add, removeListener |-> rem]
PlainAdapter == Capabilities(FALSE, FALSE)
NotifyingAdapter == Capabilities(TRUE, TRUE)

\* the members of the object createSyncTypedStorage returns
Members(p, ad) ==
  {"get", "set", "remove", "keys", "clearAll", "addListener", "removeListener"}

\* the internal callback addListener creates: a closure over the facade's
\* field for key and the user callback cb; id is its identity
Internal(id, f, key, cb) == [id |-> id, f |-> f, key |-> key, cb |-> cb]

\* a listener operation yields its outcome, its adapter calls and the
\* facade's listenerMap after it
LEffect(out, calls, lm) == [out |-> out, calls |-> calls, lm |-> lm]

\* an addListener that takes the adapter's addListener for granted
addListenerAssuming(p, ad, lm, key, cb, internal) ==
  LET fld == SchemaLookup(p.schema, key)
      physicalKey == makeKey(p, key)
      keyMap == IF MapHas(lm, physicalKey) THEN lm[physicalKey] ELSE EmptyMap
  IN IF fld = Undefined THEN LEffect(Throw("UnknownKey"), <<>>, lm)
     ELSE LEffect(Ok(Undefined), <<Call("addListener", physicalKey, internal)>>,
                  MapSet(lm, physicalKey, MapSet(keyMap, cb, internal)))

addListener(p, ad, lm, key, cb, internal) ==
  IF ~ad.addListener THEN LEffect(Ok(Undefined), <<>>, lm)
  ELSE LET fld == SchemaLookup(p.schema, key)
           physicalKey == makeKey(p, key)
           keyMap == IF MapHas(lm, physicalKey) THEN lm[physicalKey]
                     ELSE EmptyMap
       IN IF fld = Undefined THEN LEffect(Throw("UnknownKey"), <<>>, lm)
          ELSE LEffect(Ok(Undefined),
                       <<Call("addListener", physicalKey, internal)>>,
                       MapSet(lm, physicalKey, MapSet(keyMap, cb, internal)))

\* a removeListener that keeps the key's map when it has become empty
removeListenerKeeping(p, ad, lm, key, cb) ==
  LET physicalKey == makeKey(p, key)
  IN IF ~ad.removeListener THEN LEffect(Ok(Undefined), <<>>, lm)
     ELSE IF ~MapHas(lm, physicalKey) THEN LEffect(Ok(Undefined), <<>>, lm)
     ELSE IF ~MapHas(lm[physicalKey], cb) THEN LEffect(Ok(Undefined), <<>>, lm)
     ELSE LEffect(Ok(Undefined),
                  <<Call("removeListener", physicalKey, lm[physicalKey][cb])>>,
                  MapSet(lm, physicalKey, MapDelete(lm[physicalKey], cb)))

\* a removeListener that drops the key's whole map along with cb
removeListenerWhole(p, ad, lm, key, cb) ==
  LET physicalKey == makeKey(p, key)
  IN IF ~ad.removeListener THEN LEffect(Ok(Undefined), <<>>, lm)
     ELSE IF ~MapHas(lm, physicalKey) THEN LEffect(Ok(Undefined), <<>>, lm)
     ELSE IF ~MapHas(lm[physicalKey], cb) THEN LEffect(Ok(Undefined), <<>>, lm)
     ELSE LEffect(Ok(Undefined),
                  <<Call("removeListener", physicalKey, lm[physicalKey][cb])>>,
                  MapDelete(lm, physicalKey))

\* a removeListener that drops the key's whole map when cb is not in it
removeListenerDropping(p, ad, lm, key, cb) ==
  LET physicalKey == makeKey(p, key)
  IN IF ~ad.removeListener THEN LEffect(Ok(Undefined), <<>>, lm)
     ELSE IF ~MapHas(lm, physicalKey) THEN LEffect(Ok(Undefined), <<>>, lm)
     ELSE IF ~MapHas(lm[physicalKey], cb)
       THEN LEffect(Ok(Undefined), <<>>, MapDelete(lm, physicalKey))
     ELSE LET internal == lm[physicalKey][cb]
              keyMap == MapDelete(lm[physicalKey], cb)
          IN LEffect(Ok(Undefined),
                     <<Call("removeListener", physicalKey, internal)>>,
                     IF DOMAIN keyMap = {} THEN MapDelete(lm, physicalKey)
                     ELSE MapSet(lm, physicalKey, keyMap))

removeListener(p, ad, lm, key, cb) ==
  LET physicalKey == makeKey(p, key)
  IN IF ~ad.removeListener THEN LEffect(Ok(Undefined), <<>>, lm)
     ELSE IF ~MapHas(lm, physicalKey) THEN LEffect(Ok(Undefined), <<>>, lm)
     ELSE IF ~MapHas(lm[physicalKey], cb) THEN LEffect(Ok(Undefined), <<>>, lm)
     ELSE LET internal == lm[physicalKey][cb]
              keyMap == MapDelete(lm[physicalKey], cb)
          IN LEffect(Ok(Undefined),
                     <<Call("removeListener", physicalKey, internal)>>,
                     IF DOMAIN keyMap = {} THEN MapDelete(lm, physicalKey)
                     ELSE MapSet(lm, physicalKey, keyMap))

(***************************************************************************)
(* Adapter with listeners: per key, the Set of callbacks in insertion order *)
(***************************************************************************)
InSeq(q, x) == \E i \in 1..Len(q) : q[i] = x
Without(q, x) == SelectSeq(q, LAMBDA y : y # x)

AdapterAddListener(ls, pk, callback) ==
  LET cbs == IF MapHas(ls, pk) THEN ls[pk] ELSE <<>>
  IN MapSet(ls, pk, IF InSeq(cbs, callback) THEN cbs ELSE Append(cbs, callback))

AdapterRemoveListener(ls, pk, callback) ==
  IF ~MapHas(ls, pk) THEN ls
  ELSE LET cbs == Without(ls[pk], callback)
       IN IF cbs = <<>> THEN MapDelete(ls, pk) ELSE MapSet(ls, pk, cbs)

\* the internal callback w called with raw: it decodes raw with its field's
\* codec and calls the user callback with the result
Invoke(w, raw) ==
  LET fld == SchemaLookup(params[w.f].schema, w.key)
  IN IF fld = Inherited THEN Throw("TypeError") ELSE Decode(fld.codec, raw)

Invocation(w, v) == [cb |-> w.cb, f |-> w.f, key |-> w.key, v |-> v]

\* notify(key, newValue): the callbacks of key in order, up to the first
\* one that throws; log holds the user callbacks invoked so far
RECURSIVE NotifyEach(_, _, _)
RECURSIVE NotifyNext(_, _, _, _)
NotifyEach(cbs, raw, log) ==
  IF cbs = <<>> THEN [out |-> Ok(Undefined), log |-> log]
  ELSE NotifyNext(cbs, raw, log, Invoke(cbs[1], raw))

\* r: what the first callback of cbs did with raw
NotifyNext(cbs, raw, log, r) ==
  IF r.t = "throw" THEN [out |-> r, log |-> log]
  ELSE NotifyEach(Tail(cbs), raw, Append(log, Invocation(cbs[1], r.v)))

Notify(ls, pk, raw, log) ==
  IF MapHas(ls, pk) THEN NotifyEach(ls[pk], raw, log)
  ELSE [out |-> Ok(Undefined), log |-> log]

\* one adapter call applied to the store and to the adapter's listeners
ApplyStore(st, c) ==
  CASE c.fn = "setItem" -> SetItem(st, c.key, c.value.chars)
    [] c.fn = "deleteItem" -> DeleteItem(st, c.key)
    [] OTHER -> st

ApplyListeners(ls, c) ==
  CASE c.fn = "addListener" -> AdapterAddListener(ls, c.key, c.value)
    [] c.fn = "removeListener" -> AdapterRemoveListener(ls, c.key, c.value)
    [] OTHER -> ls

\* faults: the adapter calls that raise, each a function name with the
\* physical key it is called with
Fault(fn, pk) == [fn |-> fn, key |-> pk]
Fails(c) == Fault(c.fn, c.key) \in faults

\* the adapter calls of an operation carried out one after the other on the
\* adapter: setItem and deleteItem notify the listeners of their key, and a
\* call that raises, or a listener that throws, ends the operation there
Done(out, calls, st, ls, log) ==
  [out |-> out, calls |-> calls, store |-> st, listeners |-> ls,
   notified |-> log]

RECURSIVE Deliver(_, _, _, _, _, _)
RECURSIVE DeliverNext(_, _, _, _, _, _)
Deliver(out, calls, i, st, ls, log) ==
  IF i > Len(calls) THEN Done(out, calls, st, ls, log)
  ELSE IF Fails(calls[i])
    THEN Done(Throw("AdapterError"), SubSeq(calls, 1, i), st, ls, log)
  ELSE DeliverNext(out, calls, i, ApplyStore(st, calls[i]),
                   ApplyListeners(ls, calls[i]),
                   IF calls[i].fn \in {"setItem", "deleteItem"}
                     THEN Notify(ls, calls[i].key, calls[i].value, log)
                   ELSE [out |-> Ok(Undefined), log |-> log])

\* st, ls: the store and the listeners after call i; n: its notifications
DeliverNext(out, calls, i, st, ls, n) ==
  IF n.out.t = "throw" THEN Done(n.out, SubSeq(calls, 1, i), st, ls, n.log)
  ELSE Deliver(out, calls, i + 1, st, ls, n.log)

(***************************************************************************)
(* The programs checked: two facades over one adapter                      *)
(***************************************************************************)
Facades == {1, 2}

K == <<"k">>
N == <<"n">>
B == <<"b">>
J == <<"j">>
AK == <<"a", "-", "k">>

StringVals == {StrV(<<>>), StrV(K)}
BooleanVals == {BoolV(TRUE), BoolV(FALSE)}
NumberVals ==
  {NumV(FALSE, 0), NumV(FALSE, MaxNum), NumV(TRUE, MaxNum), NegZero, NaN}
JsonVals ==
  {Null, NegZero, StrV(K),
   ArrV(<<NumV(FALSE, MaxNum), StrV(K)>>),
   ObjV(<<Member(K, NumV(FALSE, MaxNum)),
          Member(N, ObjV(<<Member(K, ArrV(<<BoolV(TRUE)>>))>>))>>)}

ValuesOf(codec) ==
  CASE codec = "string" -> StringVals
    [] codec = "boolean" -> BooleanVals
    [] codec = "number" -> NumberVals
    [] codec = "json" -> JsonVals

\* the params of createSyncTypedStorage, per facade
Params(namespace, schema) == [namespace |-> namespace, schema |-> schema]

Configs ==
  { \* a namespaced facade beside one created without a namespace
    <<Params(StrV(<<"a">>),
             <<field(K, "string", StrV(K)),
               field(N, "number", NumV(FALSE, MaxNum))>>),
      Params(Undefined, <<field(AK, "json", Undefined)>>)>>,
    \* a namespaced facade beside one created with the empty namespace
    <<Params(StrV(<<"a">>),
             <<field(B, "boolean", BoolV(TRUE)),
               field(J, "json", Undefined)>>),
      Params(StrV(<<>>), <<field(K, "string", Undefined)>>)>>,
    \* two namespaced facades, one namespace a prefix of the other
    <<Params(StrV(<<"a">>), <<field(AK, "string", Undefined)>>),
      Params(StrV(<<"a", "-", "a">>), <<field(K, "string", Undefined)>>)>> }

\* the names the facade operations are called with
KeyNames == {K, N, B, J, AK, ProtoKey}

\* the values set() is called with: of the field's type when k is declared
SetValues(p, key) ==
  LET fld == SchemaLookup(p.schema, key)
  IN IF fld \notin {Undefined, Inherited} THEN ValuesOf(fld.codec)
     ELSE {StrV(K)}

\* physical keys and raw strings written to the adapter behind the facades
OutKey == <<"a", "-", "a", "-", "k">>
SchemaKeys(p) == {makeKey(p, k) : k \in Declared(p.schema)}
DirectKeys == UNION {SchemaKeys(params[f]) : f \in Facades} \cup {OutKey}
DirectRaws == {<<"x">>}

(***************************************************************************)
(* History                                                                 *)
(***************************************************************************)
\* last: the operation that ran last, its outcome, its adapter calls and the
\* physical keys it changed
\* the physical keys whose value differs between two stores
Changed(before, after) ==
  {pk \in (DOMAIN before) \cup (DOMAIN after) :
     GetItem(before, pk) # GetItem(after, pk)}

Op(name, f, key, arg, eff) ==
  [op |-> name, f |-> f, key |-> key, arg |-> arg,
   out |-> eff.out, calls |-> eff.calls,
   changed |-> Changed(store, eff.store), notified |-> eff.notified]

Written(calls) ==
  {calls[i].key : i \in {j \in 1..Len(calls) :
                           calls[j].fn \in {"setItem", "deleteItem"}}}

SetKeys(calls) ==
  {calls[i].key : i \in {j \in 1..Len(calls) : calls[j].fn = "setItem"}}

\* fresh: the set(k, v) calls with no write or removal of k's physical key since
\* removed: the remove(k) calls with no setItem on k's physical key since
Entry(f, key, v) == [f |-> f, key |-> key, v |-> v]

Track(calls, newFresh, newRemoved) ==
  /\ fresh' = {e \in fresh : makeKey(params[e.f], e.key) \notin Written(calls)}
                \cup newFresh
  /\ removed' = {e \in removed :
                   makeKey(params[e.f], e.key) \notin SetKeys(calls)}
                  \cup newRemoved

\* unregistered: the removeListener(k, cb) calls that returned, with no
\* addListener(k, cb) through the same facade since
Registration(f, key, cb) == [f |-> f, key |-> key, cb |-> cb]

\* an operation's effect carried out on the adapter as it is now
OnAdapter(eff) == Deliver(eff.out, eff.calls, 1, store, listeners, <<>>)

(***************************************************************************)
(* Actions                                                                 *)
(***************************************************************************)
Created ==
  /\ store = EmptyStore
  /\ last = Op("create", 0, <<>>, Undefined,
               Done(Ok(Undefined), <<>>, store, EmptyMap, <<>>))
  /\ fresh = {}
  /\ removed = {}
  /\ listeners = EmptyMap
  /\ listenerMap = [f \in Facades |-> EmptyMap]
  /\ nextId = 0
  /\ unregistered = {}

Init ==
  /\ params \in Configs
  /\ adapter = PlainAdapter
  /\ faults = {}
  /\ Created

Fixed ==
  UNCHANGED <<params, adapter, listenerMap, nextId, unregistered, faults>>

\* the operation name of facade f (0: another writer) has run with effect r;
\* when it returned, newFresh joins fresh and the keys of removedKeys join
\* removed
Commit(name, f, key, arg, r, newFresh, removedKeys) ==
  /\ last' = Op(name, f, key, arg, r)
  /\ store' = r.store
  /\ listeners' = r.listeners
  /\ Track(r.calls,
           IF r.out.t = "ok" THEN newFresh ELSE {},
           IF r.out.t = "ok"
             THEN {Entry(f, k, Undefined) : k \in removedKeys}
           ELSE {})

Get(f, key) ==
  /\ Commit("get", f, key, Undefined, OnAdapter(get(params[f], store, key)),
            {}, {})
  /\ Fixed

Set(f, key) ==
  \E value \in SetValues(params[f], key) :
    /\ Commit("set", f, key, value,
              OnAdapter(set(params[f], store, key, value)),
              {Entry(f, key, value)}, {})
    /\ Fixed

Remove(f, key) ==
  /\ Commit("remove", f, key, Undefined,
            OnAdapter(remove(params[f], store, key)),
            {}, {key} \cap Declared(params[f].schema))
  /\ Fixed

Keys(f) ==
  /\ Commit("keys", f, <<>>, Undefined, OnAdapter(keys(params[f], store)),
            {}, {})
  /\ Fixed

ClearAll(f) ==
  /\ Commit("clearAll", f, <<>>, Undefined,
            OnAdapter(clearAll(params[f], store)),
            {}, Declared(params[f].schema))
  /\ Fixed

\* e: what addListener(key, cb) did to the table and asked of the adapter;
\* r: e carried out on the adapter
AddListenerDone(f, key, cb, e, r) ==
  /\ Commit("addListener", f, key, [cb |-> cb], r, {}, {})
  /\ listenerMap' = [listenerMap EXCEPT ![f] = e.lm]
  /\ nextId' = IF e.calls = <<>> THEN nextId ELSE nextId + 1
  /\ unregistered' = IF r.out.t = "ok"
                       THEN unregistered \ {Registration(f, key, cb)}
                     ELSE unregistered
  /\ UNCHANGED <<params, adapter, faults>>

AddListenerCalled(f, key, cb, e) == AddListenerDone(f, key, cb, e, OnAdapter(e))

AddListener(f, key, cb) ==
  /\ nextId < MaxWrappers
  /\ AddListenerCalled(f, key, cb,
                       addListener(params[f], adapter, listenerMap[f], key,
                                   cb, Internal(nextId + 1, f, key, cb)))

RemoveListenerDone(f, key, cb, e, r) ==
  /\ Commit("removeListener", f, key, [cb |-> cb], r, {}, {})
  /\ listenerMap' = [listenerMap EXCEPT ![f] = e.lm]
  /\ unregistered' = IF r.out.t = "ok"
                       THEN unregistered \cup {Registration(f, key, cb)}
                     ELSE unregistered
  /\ UNCHANGED <<params, adapter, nextId, faults>>

RemoveListenerCalled(f, key, cb, e) ==
  RemoveListenerDone(f, key, cb, e, OnAdapter(e))

RemoveListener(f, key, cb) ==
  RemoveListenerCalled(f, key, cb,
                       removeListener(params[f], adapter, listenerMap[f],
                                      key, cb))

\* another writer calls the adapter directly
AdapterSetItem(pk, chars) ==
  /\ Commit("adapter.setItem", 0, pk, StrV(chars),
            OnAdapter(Effect(Ok(Undefined),
                             <<Call("setItem", pk, StrV(chars))>>, store)),
            {}, {})
  /\ Fixed

AdapterDeleteItem(pk) ==
  /\ Commit("adapter.deleteItem", 0, pk, Undefined,
            OnAdapter(Effect(Ok(Undefined),
                             <<Call("deleteItem", pk, Null)>>, store)),
            {}, {})
  /\ Fixed

Next ==
  \/ \E f \in Facades, key \in KeyNames : Get(f, key)
  \/ \E f \in Facades, key \in KeyNames : Set(f, key)
  \/ \E f \in Facades, key \in KeyNames : Remove(f, key)
  \/ \E f \in Facades : Keys(f)
  \/ \E f \in Facades : ClearAll(f)
  \/ \E pk \in DirectKeys, chars \in DirectRaws : AdapterSetItem(pk, chars)
  \/ \E pk \in DirectKeys : AdapterDeleteItem(pk)

Spec == Init /\ [][Next]_vars

(***************************************************************************)
(* The listener programs: one facade over an adapter with or without       *)
(* listener support                                                        *)
(***************************************************************************)
ListenerFacades == {1}
Callbacks == {"cb1", "cb2"}

ListenerConfigs ==
  { <<Params(StrV(<<"a">>), <<field(K, "boolean", Undefined)>>),
      Params(Undefined, <<field(AK, "json", Undefined)>>)>> }

\* the names addListener is called with: a declared name, an undeclared one
\* and an inherited one
ListenerKeys == {K, N, ProtoKey}

InitListeners ==
  /\ params \in ListenerConfigs
  /\ adapter \in {PlainAdapter, NotifyingAdapter}
  /\ faults = {}
  /\ Created

NextListeners ==
  \/ \E f \in ListenerFacades, key \in ListenerKeys, cb \in Callbacks :
       AddListener(f, key, cb)
  \/ \E f \in ListenerFacades, key \in {K, ProtoKey}, cb \in Callbacks :
       RemoveListener(f, key, cb)
  \/ \E f \in ListenerFacades : Set(f, K)
  \/ \E f \in ListenerFacades : Remove(f, K)
  \/ \E f \in ListenerFacades : ClearAll(f)
  \/ \E f \in ListenerFacades : Get(f, K)
  \/ \E f \in ListenerFacades : Keys(f)

SpecListeners == InitListeners /\ [][NextListeners]_vars

(***************************************************************************)
(* The programs of the second implementation: two of its facades over one  *)
(* adapter                                                                 *)
(***************************************************************************)
VariantSet(f, key) ==
  \E value \in SetValues(params[f], key) :
    /\ Commit("set", f, key, value,
              OnAdapter(variantSet(params[f], store, key, value)),
              {Entry(f, key, value)}, {})
    /\ Fixed

VariantRemove(f, key) ==
  /\ Commit("remove", f, key, Undefined,
            OnAdapter(variantRemove(params[f], store, key)),
            {}, {key} \cap Declared(params[f].schema))
  /\ Fixed

VariantKeys(f) ==
  /\ Commit("keys", f, <<>>, Undefined,
            OnAdapter(variantKeys(params[f], store)), {}, {})
  /\ Fixed

NextVariant ==
  \/ \E f \in Facades, key \in KeyNames : VariantSet(f, key)
  \/ \E f \in Facades, key \in KeyNames : VariantRemove(f, key)
  \/ \E f \in Facades : VariantKeys(f)
  \/ \E pk \in DirectKeys, chars \in DirectRaws : AdapterSetItem(pk, chars)
  \/ \E pk \in DirectKeys : AdapterDeleteItem(pk)

SpecVariant == Init /\ [][NextVariant]_vars

(***************************************************************************)
(* The failing programs: one facade over a notifying adapter one of whose  *)
(* calls raises                                                            *)
(***************************************************************************)
FaultFacades == {1}

FaultConfigs ==
  { <<Params(StrV(<<"a">>),
             <<field(K, "boolean", Undefined),
               field(B, "string", Undefined),
               field(N, "boolean", Undefined)>>),
      Params(Undefined, <<field(AK, "json", Undefined)>>)>> }

\* the one call that raises: deleteItem on a field, or a listener operation
\* on the first field
FaultChoices ==
  {{Fault("deleteItem", <<"a", "-">> \o key)} : key \in {K, B, N}}
    \cup {{Fault(fn, <<"a", "-">> \o K)} :
            fn \in {"addListener", "removeListener"}}

FaultCallbacks == {"cb1"}

InitFaults ==
  /\ params \in FaultConfigs
  /\ adapter = NotifyingAdapter
  /\ faults \in FaultChoices
  /\ Created

NextFaults ==
  \/ \E f \in FaultFacades, key \in {K, B, N} : Set(f, key)
  \/ \E f \in FaultFacades : Remove(f, K)
  \/ \E f \in FaultFacades : ClearAll(f)
  \/ \E f \in FaultFacades, cb \in FaultCallbacks : AddListener(f, K, cb)
  \/ \E f \in FaultFacades, cb \in FaultCallbacks : RemoveListener(f, K, cb)

SpecFaults == InitFaults /\ [][NextFaults]_vars

(***************************************************************************)
(* Properties                                                              *)
(***************************************************************************)
LastParams == params[last.f]
FacadeOp(names) == last.op \in names /\ last.f \in Facades
\* the physical key the data model prescribes for a logical key
PhysicalKey(p, key) ==
  IF p.namespace # Undefined /\ Len(p.namespace.chars) > 0
    THEN p.namespace.chars \o <<"-">> \o key
  ELSE key
CodecOf(p, key) == SchemaLookup(p.schema, key).codec

\* C1: after set(k, v), as long as k's physical key is neither written nor
\* removed, get(k) returns a value equal to v (the same value, compared
\* structurally), for every codec.
C1_SetThenGet ==
  \A e \in fresh : get(params[e.f], store, e.key).out = Ok(e.v)

\* C2: get(k) and set(k, v) with a name k the schema does not declare raise
\* the unknown-key error, and set makes no adapter call.
C2_UnknownKeyError ==
  (FacadeOp({"get", "set"}) /\ last.key \notin Declared(LastParams.schema))
    => /\ last.out = Throw("UnknownKey")
       /\ last.op = "set" => last.calls = <<>> /\ last.changed = {}

\* C3: get(k) on a declared key whose physical key holds no value returns
\* null, whether or not the field declares a default.
C3_AbsentIsNull ==
  (/\ FacadeOp({"get"})
   /\ last.key \in Declared(LastParams.schema)
   /\ PhysicalKey(LastParams, last.key) \notin DOMAIN store)
    => last.out = Ok(Null)

C3_Witness ==
  /\ FacadeOp({"get"})
  /\ last.key \in Declared(LastParams.schema)
  /\ SchemaLookup(LastParams.schema, last.key).default # Undefined
  /\ PhysicalKey(LastParams, last.key) \notin DOMAIN store
  /\ DOMAIN store # {}
  /\ last.out = Ok(Null)

\* C4: a set(k, v) that returns makes exactly one adapter call, setItem on
\* namespace + "-" + k (k alone without a namespace or with the empty one)
\* with encode(v), and every other physical key keeps its value.
C4_SetWritesOneKey ==
  [][(last'.op = "set" /\ last'.out.t = "ok")
       => LET p == params[last'.f]
              pk == PhysicalKey(p, last'.key)
          IN /\ last'.calls =
                  <<Call("setItem", pk,
                         StrV(Encode(CodecOf(p, last'.key), last'.arg)))>>
             /\ GetItem(store', pk) = last'.calls[1].value
             /\ \A x \in ((DOMAIN store) \cup (DOMAIN store')) \ {pk} :
                  GetItem(store', x) = GetItem(store, x)]_vars

C4_Witness ==
  /\ FacadeOp({"set"})
  /\ last.out.t = "ok"
  /\ last.changed = {PhysicalKey(LastParams, last.key)}
  /\ LastParams.namespace = StrV(<<"a">>)
  /\ Cardinality(DOMAIN store) > 1

\* C5: after remove(k) on a declared key, get(k) returns null for as long as
\* no value is set at k's physical key.
C5_RemovedIsNull ==
  \A e \in removed : get(params[e.f], store, e.key).out = Ok(Null)

C5_Witness ==
  /\ FacadeOp({"remove"})
  /\ Entry(last.f, last.key, Undefined) \in removed
  /\ last.changed = {PhysicalKey(LastParams, last.key)}

\* C6: in the state clearAll() leaves, get(k) returns null for every key k
\* the schema declares.
C6_ClearAllClears ==
  FacadeOp({"clearAll"})
    => \A k \in Declared(LastParams.schema) :
         get(LastParams, store, k).out = Ok(Null)

C6_Witness ==
  /\ FacadeOp({"clearAll"})
  /\ Cardinality(last.changed) > 1

\* C7: clearAll() calls deleteItem only on the physical keys of the declared
\* fields, and every other physical key of the store keeps its value.
C7_ClearAllFrame ==
  [][last'.op = "clearAll"
       => LET own == SchemaKeys(params[last'.f])
          IN /\ \A i \in 1..Len(last'.calls) :
                  last'.calls[i].fn = "deleteItem" /\ last'.calls[i].key \in own
             /\ \A x \in (DOMAIN store) \ own :
                  GetItem(store', x) = GetItem(store, x)]_vars

C7_Witness ==
  /\ FacadeOp({"clearAll"})
  /\ last.changed # {}
  /\ LastParams.namespace = StrV(<<"a">>)
  /\ OutKey \in DOMAIN store

\* C8: under a non-empty namespace ns, keys() returns exactly the physical
\* keys that start with ns + "-", each without that leading prefix, so that
\* every returned name joined to the namespace is a physical key of the store.
C8_KeysStripPrefix ==
  (FacadeOp({"keys"}) /\ Truthy(LastParams.namespace))
    => LET prefix == LastParams.namespace.chars \o <<"-">>
           mine == {pk \in DOMAIN store : StartsWith(pk, prefix)}
       IN /\ last.out = Ok({SubSeq(pk, Len(prefix) + 1, Len(pk)) : pk \in mine})
          /\ {prefix \o r : r \in last.out.v} = mine

C8_Witness ==
  /\ FacadeOp({"keys"})
  /\ Truthy(LastParams.namespace)
  /\ OutKey \in DOMAIN store
  /\ K \in DOMAIN store
  /\ Cardinality(last.out.v) > 1

\* the namespace a facade works under: absent and empty are both none
NamespaceOf(p) == IF Truthy(p.namespace) THEN p.namespace.chars ELSE <<>>
\* the physical keys the names returned by the last keys() stand for
Listed == {PhysicalKey(LastParams, r) : r \in last.out.v}
\* the physical keys whose current value was set through a facade working
\* under another namespace than the facade of the last operation
ForeignKeys ==
  {PhysicalKey(params[e.f], e.key) :
     e \in {x \in fresh : NamespaceOf(params[x.f]) # NamespaceOf(LastParams)}}

C10_KeysAreDeclared ==
  FacadeOp({"keys"}) => last.out.v \subseteq Declared(LastParams.schema)

\* cb has an entry for key in the bookkeeping table of facade f
Registered(f, key, cb) ==
  LET pk == PhysicalKey(params[f], key)
  IN MapHas(listenerMap[f], pk) /\ MapHas(listenerMap[f][pk], cb)

\* the positions in the last operation's notifications where cb was invoked
\* for key through facade f
InvokedAt(f, key, cb) ==
  {i \in 1..Len(last.notified) :
     /\ last.notified[i].f = f
     /\ last.notified[i].key = key
     /\ last.notified[i].cb = cb}

\* C11: with an adapter that notifies on write, while cb is registered for
\* schema key k, every set(k, v) invokes cb exactly once, with the value v.
C11_SetInvokesOnce ==
  (/\ FacadeOp({"set"})
   /\ adapter = NotifyingAdapter
   /\ last.key \in Declared(LastParams.schema))
  => \A cb \in Callbacks :
       Registered(last.f, last.key, cb)
       => /\ Cardinality(InvokedAt(last.f, last.key, cb)) = 1
          /\ \A i \in InvokedAt(last.f, last.key, cb) :
               last.notified[i].v = last.arg

\* C12: after removeListener(k, cb) has returned, no set(k, v) or remove(k)
\* invokes cb until cb is registered again, whatever addListener and
\* removeListener calls came before.
C12_RemovedListenerSilent ==
  FacadeOp({"set", "remove"})
  => \A cb \in Callbacks :
       Registration(last.f, last.key, cb) \in unregistered
       => InvokedAt(last.f, last.key, cb) = {}

\* C13: removeListener(k, cb) with cb not registered for k through the
\* facade raises nothing, makes no adapter call and leaves the bookkeeping
\* table and the adapter's listeners as they were.
C13_RemoveUnregisteredNoOp ==
  [][(/\ last'.op = "removeListener"
      /\ ~Registered(last'.f, last'.key, last'.arg.cb))
     => /\ last'.out = Ok(Undefined)
        /\ last'.calls = <<>>
        /\ listenerMap' = listenerMap
        /\ listeners' = listeners]_vars

\* a removeListener of an unregistered callback ran while the facade held
\* other registrations
C13_Witness ==
  /\ FacadeOp({"removeListener"})
  /\ adapter = NotifyingAdapter
  /\ last.calls = <<>>
  /\ last.out = Ok(Undefined)
  /\ listenerMap[last.f] # EmptyMap
  /\ MapHas(listenerMap[last.f], PhysicalKey(LastParams, last.key))
  /\ listeners # EmptyMap

\* C14: addListener(k, cb) with a name k the schema does not declare raises
\* the unknown-key error and changes neither the bookkeeping table nor the
\* adapter's listeners.
C14_AddListenerUnknownKey ==
  [][(/\ last'.op = "addListener"
      /\ adapter = NotifyingAdapter
      /\ last'.key \notin Declared(params[last'.f].schema))
     => /\ last'.out = Throw("UnknownKey")
        /\ listenerMap' = listenerMap
        /\ listeners' = listeners]_vars

\* C15: the facade has addListener and removeListener if and only if the
\* adapter implements them.
C15_ListenerOpsIffAdapter ==
  \A f \in Facades :
    {"addListener", "removeListener"} \subseteq Members(params[f], adapter)
    <=> (adapter.addListener /\ adapter.removeListener)

\* C16: two facades with distinct namespaces over one store never share a
\* physical key: a set, remove or clearAll through one never changes what
\* get returns through the other.
C16_NamespacesIsolate ==
  [][\A f, g \in Facades :
       (/\ f # g
        /\ Truthy(params[f].namespace)
        /\ Truthy(params[g].namespace)
        /\ params[f].namespace # params[g].namespace
        /\ last'.f = f
        /\ last'.op \in {"set", "remove", "clearAll"})
       => \A k \in Declared(params[g].schema) :
            Decode(CodecOf(params[g], k),
                   GetItem(store', PhysicalKey(params[g], k)))
              = Decode(CodecOf(params[g], k),
                       GetItem(store, PhysicalKey(params[g], k)))]_vars

\* the raw string at the physical key of the last operation's key
RawOfLast == GetItem(store, PhysicalKey(LastParams, last.key))

\* C17: get(k) of a boolean field whose raw string is neither "1" nor "0"
\* returns null and raises nothing.
C17_MalformedBooleanIsNull ==
  (/\ FacadeOp({"get"})
   /\ last.key \in Declared(LastParams.schema)
   /\ CodecOf(LastParams, last.key) = "boolean"
   /\ RawOfLast # Null
   /\ RawOfLast.chars \notin {<<"1">>, <<"0">>})
  => last.out = Ok(Null)

C17_Witness ==
  /\ FacadeOp({"get"})
  /\ last.key \in Declared(LastParams.schema)
  /\ CodecOf(LastParams, last.key) = "boolean"
  /\ RawOfLast = StrV(<<"x">>)
  /\ last.out = Ok(Null)

\* C18: get(k) of a JSON field whose raw string is not valid JSON raises the
\* parse error to the caller and leaves the store unchanged.
C18_InvalidJsonRaises ==
  (/\ FacadeOp({"get"})
   /\ last.key \in Declared(LastParams.schema)
   /\ CodecOf(LastParams, last.key) = "json"
   /\ RawOfLast # Null
   /\ JsonParse(RawOfLast.chars).t = "throw")
  => /\ last.out = Throw("SyntaxError")
     /\ last.changed = {}

C18_Witness ==
  /\ FacadeOp({"get"})
  /\ last.key \in Declared(LastParams.schema)
  /\ CodecOf(LastParams, last.key) = "json"
  /\ RawOfLast = StrV(<<"x">>)
  /\ last.out = Throw("SyntaxError")
  /\ last.changed = {}

\* the wrappers the bookkeeping tables hold, and the wrappers registered with
\* the adapter, each with its physical key
TableEntries ==
  UNION {UNION {{<<pk, listenerMap[f][pk][cb]>> :
                   cb \in DOMAIN listenerMap[f][pk]} :
                  pk \in DOMAIN listenerMap[f]} :
           f \in Facades}

AdapterEntries ==
  UNION {{<<pk, listeners[pk][i]>> : i \in 1..Len(listeners[pk])} :
           pk \in DOMAIN listeners}

\* C19: the bookkeeping table holds an entry (physicalKey, cb) -> wrapper
\* if and only if that wrapper is registered with the adapter: registering
\* one callback twice for a key leaves one wrapper registered for it.
C19_TableMatchesAdapter ==
  adapter = NotifyingAdapter => TableEntries = AdapterEntries

\* C20: whatever facade operations and direct adapter writes and deletes
\* came before, get(k) is the codec's decode of the raw string the adapter
\* holds at the physical key of k, null when there is none.
C20_GetReadsAdapter ==
  (FacadeOp({"get"}) /\ last.key \in Declared(LastParams.schema))
  => last.out = Decode(CodecOf(LastParams, last.key), RawOfLast)

\* a get of a key whose raw string another writer put in the store
C20_Witness ==
  /\ FacadeOp({"get"})
  /\ last.key \in Declared(LastParams.schema)
  /\ CodecOf(LastParams, last.key) = "string"
  /\ RawOfLast = StrV(<<"x">>)
  /\ last.out = Ok(StrV(<<"x">>))

\* the entries of a set of (physical key, wrapper) pairs, and the wrappers of
\* a physical key in the adapter's order, other than those of cb on pk
OtherEntries(entries, pk, cb) ==
  {e \in entries : ~(e[1] = pk /\ e[2].cb = cb)}

OtherListeners(ls, q, pk, cb) ==
  SelectSeq(IF MapHas(ls, q) THEN ls[q] ELSE <<>>,
            LAMBDA w : ~(q = pk /\ w.cb = cb))

\* C21: removeListener(k, cb) touches only the registration of cb on k: the
\* table entries and the adapter's wrappers of every other callback on k and
\* of every callback on another key stay as they were, in the same order.
C21_RemoveListenerFrame ==
  [][last'.op = "removeListener"
     => /\ OtherEntries(TableEntries',
                        PhysicalKey(params[last'.f], last'.key), last'.arg.cb)
             = OtherEntries(TableEntries,
                            PhysicalKey(params[last'.f], last'.key),
                            last'.arg.cb)
        /\ \A q \in (DOMAIN listeners) \cup (DOMAIN listeners') :
             OtherListeners(listeners', q,
                            PhysicalKey(params[last'.f], last'.key),
                            last'.arg.cb)
               = OtherListeners(listeners, q,
                                PhysicalKey(params[last'.f], last'.key),
                                last'.arg.cb)]_vars

\* a registered callback was removed while another callback on the same key
\* and the same callback on another key were registered
C21_Witness ==
  /\ FacadeOp({"removeListener"})
  /\ last.calls # <<>>
  /\ last.out = Ok(Undefined)
  /\ \E e \in TableEntries :
       /\ e[1] = PhysicalKey(LastParams, last.key)
       /\ e[2].cb # last.arg.cb
       /\ e \in AdapterEntries
  /\ \E e \in TableEntries :
       /\ e[1] # PhysicalKey(LastParams, last.key)
       /\ e[2].cb = last.arg.cb
       /\ e \in AdapterEntries

\* the physical key of the i-th declared field of the last operation's facade
FieldKey(p, i) == PhysicalKey(p, ObjectKeys(p.schema)[i])

\* C22: when adapter.deleteItem raises on the i-th declared field during
\* clearAll(), the caller gets that error, the fields before i are deleted,
\* the fields from i on are as they were, and deleteItem was called once for
\* each field up to i and for no other.
C22_ClearAllStopsAtFailure ==
  [][\A i \in 1..Len(params[1].schema) :
       (/\ last'.op = "clearAll"
        /\ last'.f = 1
        /\ Fault("deleteItem", FieldKey(params[1], i)) \in faults)
       => /\ last'.out = Throw("AdapterError")
          /\ last'.calls = [j \in 1..i |->
                              Call("deleteItem", FieldKey(params[1], j), Null)]
          /\ \A j \in 1..(i - 1) :
               GetItem(store', FieldKey(params[1], j)) = Null
          /\ \A j \in i..Len(params[1].schema) :
               GetItem(store', FieldKey(params[1], j))
                 = GetItem(store, FieldKey(params[1], j))]_vars

\* clearAll() failed on the second of three stored fields
C22_Witness ==
  /\ FacadeOp({"clearAll"})
  /\ last.out = Throw("AdapterError")
  /\ Len(last.calls) = 2
  /\ last.changed = {FieldKey(LastParams, 1)}
  /\ GetItem(store, FieldKey(LastParams, 2)) # Null
  /\ GetItem(store, FieldKey(LastParams, 3)) # Null

\* C23: remove(k) for a name k the schema does not declare raises no error
\* and changes no stored physical value.
C23_RemoveUndeclaredInert ==
  (FacadeOp({"remove"}) /\ last.key \notin Declared(LastParams.schema))
  => /\ last.out = Ok(Undefined)
     /\ last.changed = {}

\* C24: every implementation joins namespace and key in set with the
\* separator its keys() filters and strips by: under a non-empty namespace
\* keys() lists k after set(k, v), as long as k's physical key is neither
\* written nor removed in between.
C24_KeysListsSetKey ==
  (FacadeOp({"keys"}) /\ Truthy(LastParams.namespace))
  => \A e \in fresh : e.f = last.f => e.key \in last.out.v

\* C25: on an adapter without addListener the facade's addListener, and on
\* an adapter without removeListener the facade's removeListener, raises
\* nothing, calls no adapter operation and leaves the bookkeeping table as it
\* was, for every key and callback.
C25_NoCapabilityNoOp ==
  [][(\/ last'.op = "addListener" /\ ~adapter.addListener
      \/ last'.op = "removeListener" /\ ~adapter.removeListener)
     => /\ last'.out = Ok(Undefined)
        /\ last'.calls = <<>>
        /\ listenerMap' = listenerMap
        /\ listeners' = listeners]_vars

\* addListener was called with an undeclared name on an adapter without
\* addListener
C25_Witness ==
  /\ FacadeOp({"addListener"})
  /\ ~adapter.addListener
  /\ last.key = N
  /\ last.out = Ok(Undefined)
  /\ last.calls = <<>>
  /\ listenerMap[last.f] = EmptyMap

\* the position of a declared name in the schema's declaration order
FieldIndex(schema, key) ==
  CHOOSE i \in 1..Len(schema) : schema[i].name = key

\* the declared names the last remove or clearAll deletes
DeletedFields ==
  IF last.op = "remove" THEN {last.key} \cap Declared(LastParams.schema)
  ELSE Declared(LastParams.schema)

\* C26: with an adapter that notifies on delete, remove(k) invokes every
\* callback registered for k exactly once with null, and clearAll() does so
\* for every schema key, key after key in declaration order, stored or not.
C26_DeleteNotifiesOnce ==
  (FacadeOp({"remove", "clearAll"}) /\ adapter = NotifyingAdapter)
  => /\ \A k \in DeletedFields, cb \in Callbacks :
          Registered(last.f, k, cb)
          => /\ Cardinality(InvokedAt(last.f, k, cb)) = 1
             /\ \A i \in InvokedAt(last.f, k, cb) : last.notified[i].v = Null
     /\ \A i, j \in 1..Len(last.notified) :
          i < j => FieldIndex(LastParams.schema, last.notified[i].key)
                     <= FieldIndex(LastParams.schema, last.notified[j].key)

\* C27: when the adapter's addListener or removeListener raises, the
\* facade's bookkeeping table is as it was before the call, so it still
\* matches the wrappers the adapter holds.
C27_FailedListenerCallKeepsTable ==
  [][(/\ last'.op \in {"addListener", "removeListener"}
      /\ last'.out = Throw("AdapterError"))
     => /\ listenerMap' = listenerMap
        /\ TableEntries' = AdapterEntries']_vars

\* C28: get(k) and keys() change nothing: every physical key holds the value
\* it held, the set of physical keys is the same, and the bookkeeping table
\* and the adapter's listeners are as they were.
C28_ReadsChangeNothing ==
  [][(last'.op \in {"get", "keys"} /\ last'.f \in Facades)
     => /\ store' = store
        /\ listenerMap' = listenerMap
        /\ listeners' = listeners]_vars

\* a get of a stored key that has a registered listener
C28_Witness ==
  /\ FacadeOp({"get"})
  /\ last.out.t = "ok"
  /\ last.out.v # Null
  /\ PhysicalKey(LastParams, last.key) \in DOMAIN store
  /\ \E cb \in Callbacks : Registered(last.f, last.key, cb)
  /\ MapHas(listeners, PhysicalKey(LastParams, last.key))
  /\ last.notified = <<>>

\* C29: the bookkeeping table maps no physical key to an empty callback map:
\* removeListener deletes the key's entry with its last callback.
C29_NoEmptyCallbackMap ==
  \A f \in Facades :
    \A pk \in DOMAIN listenerMap[f] : DOMAIN listenerMap[f][pk] # {}

\* the last callback of a key was removed while another key had one
C29_Witness ==
  /\ FacadeOp({"removeListener"})
  /\ last.calls # <<>>
  /\ ~MapHas(listenerMap[last.f], PhysicalKey(LastParams, last.key))
  /\ listenerMap[last.f] # EmptyMap

====
